---- MODULE Spec2Model ----
(***************************************************************************)
(* Tamper-proof data store: a React client (App.tsx), an express server    *)
(* (app.ts) and its Redis cache (CacheManager.ts).                         *)
(*                                                                         *)
(* The server handlers are async functions: every `await` of a Redis       *)
(* command is one atomic step of the model, the synchronous code that      *)
(* follows it up to the next Redis command (or the response) belongs to    *)
(* the same step.  An HTTP exchange lives in a slot of `reqs` from the     *)
(* client's fetch until the client's continuation has handled the          *)
(* response.                                                               *)
(*                                                                         *)
(* Cryptography is symbolic: a ciphertext is the term of its plaintext,    *)
(* key and iv, a tag is the term of its message and key.  Random values    *)
(* (uuid, session secret, server secret) are fresh values.                 *)
(***************************************************************************)
EXTENDS Integers, FiniteSets, Sequences, TLC

\* ---------------------------------------------------------------- bounds
\* identities /connect may issue
MaxIds == 2
\* HTTP exchanges in flight at once
MaxReq == 2

\* ------------------------------------------------------ program constants
\* Redis EX of userInfo:<id>, 60 * 60 s, in ticks of 15 minutes
SessionTTL == 4
\* Redis EX of userData:<id> and backup-userData:<id>, 60 * 15 s, in ticks
DataTTL == 1
\* getTokenAndSecret(retries = 3)
Retries == 3
\* the server-wide secret: random, distinct from every session secret (1..)
serverSecret == 0

\* ----------------------------------------------------------------- values
\* a key without expiry (Redis SET without EX)
NoExpiry == -1
\* JavaScript null / undefined, per type
Nil == "<null>"
NoSecret == -1
NoId == <<0, 0>>
\* what bytes.toString(CryptoJS.enc.Utf8) throws on bytes that are no UTF-8
Malformed == "<Malformed UTF-8 data>"
\* what the user can type into the input box
Plain == {"a", "b"}
\* a payload only the storage attacker writes
Forged == "x"

Slots == 1..MaxReq
\* the n-th uuid: its first 16 characters and the rest
Uuid(n) == <<n, n>>
Ids == {Uuid(n) : n \in 1..MaxIds}

\* ----------------------------------------------------------------- crypto
\* CryptoJS.SHA256(secret).toString(Hex).slice(0, 64)
getKey(secret) == <<"sha256", secret>>

\* id.slice(0, 16), parsed as the iv
IvOf(id) == id[1]

\* AES-CBC under a WordArray key: no salt, so the same (data, key, iv) give
\* the same base64 text
encryptData(data, id, secret) == <<"aes", data, getKey(secret), IvOf(id)>>

\* bytes an attacker puts on the wire: under whatever key they decrypt to
\* `out` (a garbage string, the empty string, or no UTF-8 at all)
Junk(out) == <<"raw", out, <<"none", 0>>, 0>>
JunkOuts == {"~", Malformed}
NoCipher == <<"null", "", <<"none", 0>>, 0>>

\* CryptoJS.AES.decrypt(...).toString(Utf8); Malformed stands for the throw
decryptData(encryptedData, id, secret) ==
    IF encryptedData[1] = "aes"
    THEN IF encryptedData[3] = getKey(secret) /\ encryptedData[4] = IvOf(id)
         THEN encryptedData[2]
         ELSE Malformed
    ELSE encryptedData[2]

\* CryptoJS.HmacSHA256(data, secret).toString()
generateHMAC(data, secret) == <<"hmac", data, secret>>

\* CryptoJS.HmacSHA256(data, serverSecret).toString()
generateServerHMAC(data) == <<"hmac", data, serverSecret>>

\* a tag made without the key
BadTag == <<"hmac", NoCipher, NoSecret>>
NoTag == <<"null", NoCipher, NoSecret>>

\* what arrives when the network may replace the ciphertext or the tag
OnWire(c, h) == {<<c, h>>, <<c, BadTag>>} \union {<<Junk(o), h>> : o \in JunkOuts}

\* ------------------------------------------------------------------ state
VARIABLES
    \* Redis: userInfo:<id> -> secret, with its remaining lifetime
    userInfo,
    \* Redis: userData:<id> -> {data, hmac}, with its remaining lifetime
    userData,
    \* Redis: backup-userData:<id> -> data, with its remaining lifetime
    backup,
    \* how many identities /connect has issued
    issued,
    \* React state of App: data, secret, id
    cdata, csecret, cid,
    \* the browser's `token` cookie: the identity its JWT names
    cookie,
    \* the HTTP exchanges in flight
    reqs,
    \* history, per identity (see NoHist)
    hist,
    \* history: how the client code that ran in the last step ended ("none"
    \* when the last step was none of those below)
    lastDone

store == <<userData, backup>>
client == <<cdata, csecret, cid>>
vars == <<userInfo, userData, backup, issued, cdata, csecret, cid, cookie,
          reqs, hist, lastDone>>

NoInfo == [secret |-> NoSecret, ttl |-> 0]
NoData == [data |-> Nil, hmac |-> NoTag, ttl |-> 0]
NoBackup == [data |-> Nil, ttl |-> 0]

\* what has happened to an identity's records
NoHist ==
    [\* plaintext of the most recent acknowledged save
     lastSave |-> Nil,
     \* neither tampering nor expiry since that save
     quiet |-> FALSE,
     \* plaintext returned by the most recent self-heal, with no save,
     \* tampering or expiry since
     healed |-> Nil,
     \* who wrote the primary record last
     by |-> "none",
     \* the plaintexts whose {data, hmac} the store has held
     held |-> {}]

\* history of a promotion: the records it left and the plaintext it returned
NoPromotion == [data |-> Nil, hmac |-> NoTag, backup |-> Nil]

\* an empty slot
Idle ==
    [kind |-> "idle", pc |-> "idle", id |-> NoId,
     \* what the client's closures captured when the operation started
     cl |-> [id |-> NoId, secret |-> NoSecret], retries |-> 0,
     \* request body
     data |-> NoCipher, hmac |-> NoTag,
     \* the handler's locals
     secret |-> NoSecret, decrypted |-> Nil, storedHmac |-> NoTag,
     calculated |-> NoTag, backupData |-> Nil, serverHmac |-> NoTag,
     \* the response
     status |-> 0, message |-> "", encryptedData |-> NoCipher,
     rhmac |-> NoTag, rid |-> NoId, rsecret |-> NoSecret,
     \* history of this read: a save was acknowledged while it ran; the
     \* plaintext of the self-heal it follows (no save, tampering or expiry
     \* since); the promotion its own promotion follows (no write since); it
     \* wrote the records; it called getBackupUserData
     overtaken |-> FALSE, healed |-> Nil, again |-> NoPromotion,
     wrote |-> FALSE, promoted |-> FALSE,
     \* history of a /connect: the identity clearSecret dropped before it
     \* called getTokenAndSecret
     discarded |-> NoId]

Free(s) == reqs[s].kind = "idle"

\* JavaScript truthiness of a string-or-null
Truthy(x) == x # Nil /\ x # ""

Init ==
    /\ userInfo = [i \in Ids |-> NoInfo]
    /\ userData = [i \in Ids |-> NoData]
    /\ backup = [i \in Ids |-> NoBackup]
    /\ issued = 0
    /\ cdata = ""
    /\ csecret = NoSecret
    /\ cid = NoId
    /\ cookie = NoId
    \* useEffect(() => getTokenAndSecret()) has run: one /connect in flight
    /\ reqs = [s \in Slots |->
                 IF s = 1
                 THEN [Idle EXCEPT !.kind = "connect", !.pc = "s_connect",
                                   !.retries = Retries]
                 ELSE Idle]
    /\ hist = [i \in Ids |-> NoHist]
    /\ lastDone = "none"

\* history: what an event on identity i means to a read in flight for i
Note(r, i, e) ==
    IF r.kind # "get" \/ r.id # i THEN r
    ELSE IF e = "save"
    THEN [r EXCEPT !.overtaken = TRUE, !.healed = Nil, !.again = NoPromotion]
    ELSE IF e = "tamper"
    THEN [r EXCEPT !.healed = Nil, !.again = NoPromotion]
    ELSE IF e = "heal"
    THEN [r EXCEPT !.again = NoPromotion]
    ELSE [r EXCEPT !.healed = Nil]

\* the n-th /connect draws the n-th uuid and the n-th random secret
IssuedSecret(id) == id[1]

\* the at-rest tag that verifies for plaintext p of identity i
TagOf(p, i) == generateServerHMAC(encryptData(p, i, IssuedSecret(i)))

\* ------------------------------------------------------------ CacheManager
\* putUserInfo with the EX option left out: the key never expires
putUserInfoNoEX(info, id, secret) ==
    [info EXCEPT ![id] = [secret |-> secret, ttl |-> NoExpiry]]

\* redisClient.set(`userInfo:${id}`, secret, {EX: 60 * 60})
putUserInfo(info, id, secret) ==
    [info EXCEPT ![id] = [secret |-> secret, ttl |-> SessionTTL]]

\* multi.set(`userData:${id}`, {data, hmac}, {EX: 60 * 15})
putUserDataPrimary(ud, id, data, hmac) ==
    [ud EXCEPT ![id] = [data |-> data, hmac |-> hmac, ttl |-> DataTTL]]

\* the backup written only when there is none (SET ... NX)
putUserDataBackupNX(bk, id, data) ==
    [bk EXCEPT ![id] = IF @.data = Nil THEN [data |-> data, ttl |-> DataTTL] ELSE @]

\* multi.set(`backup-userData:${id}`, data, {EX: 60 * 15}), same transaction
putUserDataBackup(bk, id, data) ==
    [bk EXCEPT ![id] = [data |-> data, ttl |-> DataTTL]]

\* ------------------------------------------------------- server: /connect
\* app.get('/connect'): uuid, random secret, putUserInfo, cookie + 201
ServerConnect(s) ==
    /\ reqs[s].kind = "connect" /\ reqs[s].pc = "s_connect"
    /\ issued < MaxIds
    /\ LET id == Uuid(issued + 1)
           secret == IssuedSecret(id)
       IN /\ userInfo' = putUserInfo(userInfo, id, secret)
          /\ reqs' = [reqs EXCEPT ![s] = [@ EXCEPT !.pc = "resp", !.status = 201,
                                            !.rid = id, !.rsecret = secret]]
    /\ issued' = issued + 1
    /\ UNCHANGED <<userData, backup, cdata, csecret, cid, cookie, hist>>
    /\ lastDone' = "none"

\* getUserInfo's caller going on without its `if (!userInfo)`
LookupSecretUnchecked(r, info) ==
    [r EXCEPT !.pc = "s_refresh", !.secret = info.secret]

\* getUserInfo: redisClient.get(`userInfo:${id}`); null when there is none
LookupSecret(r, info) ==
    IF info.secret = NoSecret
    THEN [r EXCEPT !.pc = "resp", !.status = 400,
                   !.message = "Secret missing, please connect again."]
    ELSE [r EXCEPT !.pc = "s_refresh", !.secret = info.secret]

\* verifyToken, then getUserInfo's get (app.get('/') and app.post('/')
\* start alike)
ServerGetInfo(s) ==
    /\ reqs[s].kind \in {"get", "post"} /\ reqs[s].pc = "s_info"
    /\ reqs' = [reqs EXCEPT ![s] = LookupSecret(@, userInfo[@.id])]
    /\ UNCHANGED <<userInfo, userData, backup, issued, cdata, csecret, cid, cookie,
                   hist>>
    /\ lastDone' = "none"

\* getUserInfo's putUserInfo(userInfo): the secret is written back with a
\* fresh EX (app.get('/') goes on to getUserData)
ServerRefreshGet(s) ==
    /\ reqs[s].kind = "get" /\ reqs[s].pc = "s_refresh"
    /\ userInfo' = putUserInfo(userInfo, reqs[s].id, reqs[s].secret)
    /\ reqs' = [reqs EXCEPT ![s] = [@ EXCEPT !.pc = "s_data"]]
    /\ UNCHANGED <<userData, backup, issued, cdata, csecret, cid, cookie,
                   hist>>
    /\ lastDone' = "none"

\* ---------------------------------------------------- server: app.post('/')
\* what app.post('/') does between getUserInfo and putUserData: decryptData,
\* then the transit tag, then the at-rest tag
\* app.post('/') storing the transit tag it verified as the at-rest tag
PostVerifyTransitTag(r) ==
    LET decryptedData == decryptData(r.data, r.id, r.secret)
        calculatedHmac == generateHMAC(r.data, r.secret)
    IN IF decryptedData = Malformed
       THEN [r EXCEPT !.pc = "resp", !.status = 500, !.decrypted = Malformed]
       ELSE IF calculatedHmac # r.hmac
       THEN [r EXCEPT !.pc = "resp", !.status = 400, !.decrypted = decryptedData,
                      !.calculated = calculatedHmac,
                      !.message = "Data integrity compromised."]
       ELSE [r EXCEPT !.pc = "s_put", !.decrypted = decryptedData,
                      !.calculated = calculatedHmac,
                      !.serverHmac = calculatedHmac]

PostVerify(r) ==
    LET decryptedData == decryptData(r.data, r.id, r.secret)
        calculatedHmac == generateHMAC(r.data, r.secret)
    IN IF decryptedData = Malformed
       \* the throw lands in the catch: not a CacheError, so 500
       THEN [r EXCEPT !.pc = "resp", !.status = 500, !.decrypted = Malformed]
       ELSE IF calculatedHmac # r.hmac
       THEN [r EXCEPT !.pc = "resp", !.status = 400, !.decrypted = decryptedData,
                      !.calculated = calculatedHmac,
                      !.message = "Data integrity compromised."]
       ELSE [r EXCEPT !.pc = "s_put", !.decrypted = decryptedData,
                      !.calculated = calculatedHmac,
                      !.serverHmac = generateServerHMAC(r.data)]

\* getUserInfo's putUserInfo, then the handler up to putUserData; req.body
\* is what the network delivered
ServerRefreshPost(s) ==
    /\ reqs[s].kind = "post" /\ reqs[s].pc = "s_refresh"
    /\ userInfo' = putUserInfo(userInfo, reqs[s].id, reqs[s].secret)
    /\ \E w \in OnWire(reqs[s].data, reqs[s].hmac) :
          reqs' = [reqs EXCEPT ![s] = PostVerify([@ EXCEPT !.data = w[1], !.hmac = w[2]])]
    /\ UNCHANGED <<userData, backup, issued, cdata, csecret, cid, cookie,
                   hist>>
    /\ lastDone' = "none"

\* putUserData({id, data: decryptedData, hmac: serverHmac}), then 200
ServerPut(s) ==
    /\ reqs[s].kind = "post" /\ reqs[s].pc = "s_put"
    /\ LET r == reqs[s]
       IN /\ userData' = putUserDataPrimary(userData, r.id, r.decrypted, r.serverHmac)
          /\ backup' = putUserDataBackup(backup, r.id, r.decrypted)
          /\ reqs' = [t \in Slots |->
                        IF t = s
                        THEN [r EXCEPT !.pc = "resp", !.status = 200,
                                       !.message = "Data Saved", !.wrote = TRUE]
                        ELSE Note(reqs[t], r.id, "save")]
          /\ hist' = [hist EXCEPT ![r.id] =
                        [lastSave |-> r.decrypted, quiet |-> TRUE, healed |-> Nil,
                         by |-> "save", held |-> @.held \union {r.decrypted}]]
    /\ UNCHANGED <<userInfo, issued, cdata, csecret, cid, cookie>>
    /\ lastDone' = "none"

\* ----------------------------------------------------- server: app.get('/')
\* getUserData, then the at-rest check of app.get('/')
ReadCheck(r, ud) ==
    IF ud.data = Nil
    THEN [r EXCEPT !.pc = "resp", !.status = 400,
                   !.message = "Data missing, please save data again."]
    ELSE LET encryptedData == encryptData(ud.data, r.id, r.secret)
             calculatedServerHmac == generateServerHMAC(encryptedData)
         IN IF calculatedServerHmac # ud.hmac
            THEN [r EXCEPT !.pc = "s_backup", !.promoted = TRUE]
            ELSE [r EXCEPT !.pc = "resp", !.status = 200,
                           !.storedHmac = ud.hmac,
                           !.calculated = calculatedServerHmac,
                           !.encryptedData = encryptedData,
                           !.rhmac = generateHMAC(encryptedData, r.secret)]

\* app.get('/') saving what it read again when the tag matches
ServerGetDataResave(s) ==
    /\ reqs[s].kind = "get" /\ reqs[s].pc = "s_data"
    /\ LET r == reqs[s]
           ud == userData[r.id]
           next == ReadCheck(r, ud)
       IN /\ reqs' = [reqs EXCEPT ![s] = next]
          /\ IF next.status = 200
             THEN /\ userData' = putUserDataPrimary(userData, r.id, ud.data, ud.hmac)
                  /\ backup' = putUserDataBackup(backup, r.id, ud.data)
             ELSE UNCHANGED <<userData, backup>>
    /\ UNCHANGED <<userInfo, issued, cdata, csecret, cid, cookie, hist>>
    /\ lastDone' = "none"

ServerGetData(s) ==
    /\ reqs[s].kind = "get" /\ reqs[s].pc = "s_data"
    /\ reqs' = [reqs EXCEPT ![s] = ReadCheck(@, userData[@.id])]
    /\ UNCHANGED <<userInfo, userData, backup, issued, cdata, csecret, cid, cookie,
                   hist>>
    /\ lastDone' = "none"

\* the 400 of app.get('/') when getBackupUserData returned null
BackupMissing(r) ==
    [r EXCEPT !.pc = "resp", !.status = 400,
              !.message = "Data tampered and backup missing, please connect and save data again."]

\* getBackupUserData without its `if (data)`
BackupReadUnchecked(r, bk) ==
    [r EXCEPT !.pc = "s_secret", !.backupData = bk.data]

\* getBackupUserData: redisClient.get(`backup-userData:${id}`); if (data)
BackupRead(r, bk) ==
    IF Truthy(bk.data)
    THEN [r EXCEPT !.pc = "s_secret", !.backupData = bk.data]
    ELSE BackupMissing(r)

ServerGetBackup(s) ==
    /\ reqs[s].kind = "get" /\ reqs[s].pc = "s_backup"
    /\ LET r == reqs[s]
           \* history: this promotion starts after another one has ended
           h == IF hist[r.id].by = "heal" /\ userData[r.id].data # Nil
                THEN [data |-> userData[r.id].data, hmac |-> userData[r.id].hmac,
                      backup |-> backup[r.id].data]
                ELSE NoPromotion
       IN reqs' = [reqs EXCEPT ![s] = [BackupRead(r, backup[r.id]) EXCEPT !.again = h]]
    /\ UNCHANGED <<userInfo, userData, backup, issued, cdata, csecret, cid, cookie,
                   hist>>
    /\ lastDone' = "none"

\* the promotion tagging with the session secret (generateHMAC) instead of
\* the server secret
PromoteTagSessionKey(r, info) ==
    IF info.secret # NoSecret
    THEN [r EXCEPT !.pc = "s_heal",
                   !.serverHmac = generateHMAC(encryptData(r.backupData, r.id, info.secret),
                                               info.secret)]
    ELSE BackupMissing(r)

\* getBackupUserData: redisClient.get(`userInfo:${id}`); if (secret): the
\* fresh at-rest tag of the backup's plaintext
PromoteTag(r, info) ==
    IF info.secret # NoSecret
    THEN [r EXCEPT !.pc = "s_heal",
                   !.serverHmac = generateServerHMAC(encryptData(r.backupData, r.id, info.secret))]
    ELSE BackupMissing(r)

ServerGetSecret(s) ==
    /\ reqs[s].kind = "get" /\ reqs[s].pc = "s_secret"
    /\ reqs' = [reqs EXCEPT ![s] = PromoteTag(@, userInfo[@.id])]
    /\ UNCHANGED <<userInfo, userData, backup, issued, cdata, csecret, cid, cookie,
                   hist>>
    /\ lastDone' = "none"

\* the answer after a promotion carrying the at-rest tag instead of the
\* transit tag
HealResponseServerTag(r) ==
    LET encryptedData == encryptData(r.backupData, r.id, r.secret)
    IN [r EXCEPT !.pc = "resp", !.status = 200, !.wrote = TRUE,
                 !.encryptedData = encryptedData,
                 !.rhmac = generateServerHMAC(encryptedData)]

\* app.get('/') after the promotion: the backup's plaintext is encrypted
\* and tagged for the wire
HealResponse(r) ==
    LET encryptedData == encryptData(r.backupData, r.id, r.secret)
    IN [r EXCEPT !.pc = "resp", !.status = 200, !.wrote = TRUE,
                 !.encryptedData = encryptedData,
                 !.rhmac = generateHMAC(encryptedData, r.secret)]

\* a promotion that swaps the records: the old primary payload becomes the
\* backup
ServerHealSwap(s) ==
    /\ reqs[s].kind = "get" /\ reqs[s].pc = "s_heal"
    /\ LET r == reqs[s]
       IN /\ userData' = putUserDataPrimary(userData, r.id, r.backupData, r.serverHmac)
          /\ backup' = putUserDataBackup(backup, r.id, userData[r.id].data)
          /\ reqs' = [t \in Slots |->
                        IF t = s THEN HealResponse(r) ELSE Note(reqs[t], r.id, "heal")]
          /\ hist' = [hist EXCEPT ![r.id] =
                        [@ EXCEPT !.healed = r.backupData, !.by = "heal",
                                  !.held = @ \union {r.backupData}]]
    /\ UNCHANGED <<userInfo, issued, cdata, csecret, cid, cookie>>
    /\ lastDone' = "none"

\* getBackupUserData: putUserData({id, data, hmac: serverHmac}); the handler
\* then answers with the backup's plaintext
ServerHeal(s) ==
    /\ reqs[s].kind = "get" /\ reqs[s].pc = "s_heal"
    /\ LET r == reqs[s]
       IN /\ userData' = putUserDataPrimary(userData, r.id, r.backupData, r.serverHmac)
          /\ backup' = putUserDataBackup(backup, r.id, r.backupData)
          /\ reqs' = [t \in Slots |->
                        IF t = s THEN HealResponse(r) ELSE Note(reqs[t], r.id, "heal")]
          /\ hist' = [hist EXCEPT ![r.id] =
                        [@ EXCEPT !.healed = r.backupData, !.by = "heal",
                                  !.held = @ \union {r.backupData}]]
    /\ UNCHANGED <<userInfo, issued, cdata, csecret, cid, cookie>>
    /\ lastDone' = "none"

\* ------------------------------------------------------------- environment
\* README, "Steps to Tamper Data": set "userData:<id>" "{data, hmac}" with
\* data, hmac or both changed; a {data, hmac} the store has held before may
\* be written back.  A plain SET drops the key's expiry.
TamperChoices(i) ==
    LET now == userData[i]
        changed == {<<Forged, BadTag>>}
                   \union (IF now.data = Nil THEN {}
                           ELSE {<<Forged, now.hmac>>, <<now.data, BadTag>>})
        old == {<<p, TagOf(p, i)>> : p \in hist[i].held}
    IN {dh \in changed \union old : dh[1] # now.data \/ dh[2] # now.hmac}

Tamper(i) ==
    /\ i[1] <= issued
    /\ \E dh \in TamperChoices(i) :
          /\ userData' = [userData EXCEPT ![i] = [data |-> dh[1], hmac |-> dh[2],
                                                   ttl |-> NoExpiry]]
          /\ hist' = [hist EXCEPT ![i] = [@ EXCEPT !.quiet = FALSE, !.healed = Nil,
                                                  !.by = "tamper"]]
    /\ reqs' = [t \in Slots |-> Note(reqs[t], i, "tamper")]
    /\ UNCHANGED <<userInfo, backup, issued, cdata, csecret, cid, cookie>>
    /\ lastDone' = "none"

\* a key's remaining lifetime after 15 minutes
Age(rec, none) ==
    IF rec.ttl = NoExpiry \/ rec.ttl = 0 THEN rec
    ELSE IF rec.ttl = 1 THEN none
    ELSE [rec EXCEPT !.ttl = @ - 1]

Expiring(i) == userInfo[i].ttl = 1 \/ userData[i].ttl = 1 \/ backup[i].ttl = 1

\* 15 minutes pass: Redis drops the keys whose EX has run out
Tick ==
    /\ \E i \in Ids : userInfo[i].ttl > 0 \/ userData[i].ttl > 0 \/ backup[i].ttl > 0
    /\ userInfo' = [i \in Ids |-> Age(userInfo[i], NoInfo)]
    /\ userData' = [i \in Ids |-> Age(userData[i], NoData)]
    /\ backup' = [i \in Ids |-> Age(backup[i], NoBackup)]
    /\ reqs' = [t \in Slots |->
                  IF reqs[t].id \in Ids /\ Expiring(reqs[t].id)
                  THEN Note(reqs[t], reqs[t].id, "expiry") ELSE reqs[t]]
    /\ hist' = [i \in Ids |->
                  IF Expiring(i) THEN [hist[i] EXCEPT !.quiet = FALSE, !.healed = Nil]
                  ELSE hist[i]]
    /\ UNCHANGED <<issued, cdata, csecret, cid, cookie>>
    /\ lastDone' = "none"

\* ------------------------------------------------------------------ client
FreeSlots(rs) == {s \in Slots : rs[s].kind = "idle"}

\* fetch: the exchange takes the first free slot
Alloc(rs, r) ==
    LET s == CHOOSE t \in FreeSlots(rs) : \A u \in FreeSlots(rs) : t <= u
    IN [rs EXCEPT ![s] = r]

Release(rs, s) == [rs EXCEPT ![s] = Idle]

\* getTokenAndSecret(retries): fetch(`${API_URL}/connect`)
getTokenAndSecret(rs, retries) ==
    Alloc(rs, [Idle EXCEPT !.kind = "connect", !.pc = "s_connect",
                           !.retries = retries])

\* clearSecret: setId(null), setSecret(null), await getTokenAndSecret();
\* id is the identity the client held
clearSecret(rs, id) ==
    Alloc(rs, [Idle EXCEPT !.kind = "connect", !.pc = "s_connect",
                           !.retries = Retries, !.discarded = id])

\* a fetch of "/" with the cookie jar's token: verifyToken answers 401
\* without one, and names the identity otherwise
Authed(r, token) ==
    IF token = NoId
    THEN [r EXCEPT !.pc = "resp", !.status = 401]
    ELSE [r EXCEPT !.pc = "s_info", !.id = token,
                   !.healed = IF r.kind = "get" THEN hist[token].healed ELSE Nil]

\* saveData from encryptData to its fetch
SaveFetch(data, id, secret, token) ==
    LET encryptedData == encryptData(data, id, secret)
        hmac == generateHMAC(encryptedData, secret)
    IN Authed([Idle EXCEPT !.kind = "post", !.data = encryptedData, !.hmac = hmac], token)

\* retrieveData up to its fetch; generateHMAC and decryptData are the
\* closures of this render
RetrieveFetch(id, secret, token) ==
    Authed([Idle EXCEPT !.kind = "get", !.cl = [id |-> id, secret |-> secret]], token)

\* onChange={(e) => setData(e.target.value)}
ClientType ==
    /\ \E v \in Plain \union {""} : v # cdata /\ cdata' = v
    /\ UNCHANGED <<userInfo, userData, backup, issued, csecret, cid, cookie,
                   reqs, hist>>
    /\ lastDone' = "none"

\* saveData whose encryptData throws without calling getTokenAndSecret
ClientSaveNoConnect ==
    /\ cdata # ""
    /\ FreeSlots(reqs) # {}
    /\ IF csecret = NoSecret \/ cid = NoId
       THEN reqs' = reqs
       ELSE reqs' = Alloc(reqs, SaveFetch(cdata, cid, csecret, cookie))
    /\ UNCHANGED <<userInfo, userData, backup, issued, cdata, csecret, cid, cookie,
                   hist>>
    /\ lastDone' = IF csecret = NoSecret \/ cid = NoId THEN "notready" ELSE "none"

\* saveData up to its fetch
ClientSave ==
    /\ cdata # ""
    /\ FreeSlots(reqs) # {}
    /\ IF csecret = NoSecret \/ cid = NoId
       \* encryptData: await getTokenAndSecret(); throw
       THEN reqs' = getTokenAndSecret(reqs, Retries)
       ELSE reqs' = Alloc(reqs, SaveFetch(cdata, cid, csecret, cookie))
    /\ UNCHANGED <<userInfo, userData, backup, issued, cdata, csecret, cid, cookie,
                   hist>>
    /\ lastDone' = IF csecret = NoSecret \/ cid = NoId THEN "notready" ELSE "none"

\* saveData after its fetch: the 400 "Secret missing" branch runs
\* clearSecret() and getTokenAndSecret(), two fetches of /connect
ClientSaveDone(s) ==
    /\ reqs[s].kind = "post" /\ reqs[s].pc = "resp"
    /\ IF reqs[s].status = 400
          /\ reqs[s].message = "Secret missing, please connect again."
       THEN /\ Cardinality(FreeSlots(reqs)) >= 1
            /\ cid' = NoId
            /\ csecret' = NoSecret
            /\ reqs' = getTokenAndSecret(
                          clearSecret(Release(reqs, s), cid), Retries)
       ELSE /\ reqs' = Release(reqs, s)
            /\ UNCHANGED <<cid, csecret>>
    /\ UNCHANGED <<userInfo, userData, backup, issued, cdata, cookie,
                   hist>>
    /\ lastDone' = "none"

ClientRetrieve ==
    /\ FreeSlots(reqs) # {}
    /\ reqs' = Alloc(reqs, RetrieveFetch(cid, csecret, cookie))
    /\ UNCHANGED <<userInfo, userData, backup, issued, cdata, csecret, cid, cookie,
                   hist>>
    /\ lastDone' = "none"

ClientClear ==
    /\ FreeSlots(reqs) # {}
    /\ cid' = NoId
    /\ csecret' = NoSecret
    /\ reqs' = clearSecret(reqs, cid)
    /\ UNCHANGED <<userInfo, userData, backup, issued, cdata, cookie,
                   hist>>
    /\ lastDone' = "none"

\* retrieveData decrypting what it received without comparing the tags
ReceivedUnchecked(r, encryptedData, hmac) ==
    IF r.cl.secret = NoSecret \/ r.cl.id = NoId
    THEN [reconnect |-> TRUE, decrypts |-> FALSE, setData |-> Nil]
    ELSE LET decryptedData == decryptData(encryptedData, r.cl.id, r.cl.secret)
         IN [reconnect |-> FALSE, decrypts |-> TRUE,
             setData |-> IF decryptedData = Malformed THEN Nil ELSE decryptedData]

\* retrieveData after a 2xx: generateHMAC, the comparison, decryptData.
\* reconnect: a closure found its secret or id missing and called
\* getTokenAndSecret before throwing; decrypts: decryptData ran on the
\* ciphertext; setData: the value given to setData, Nil for none
Received(r, encryptedData, hmac) ==
    IF r.cl.secret = NoSecret
    THEN [reconnect |-> TRUE, decrypts |-> FALSE, setData |-> Nil]
    ELSE IF generateHMAC(encryptedData, r.cl.secret) # hmac
    THEN [reconnect |-> FALSE, decrypts |-> FALSE, setData |-> Nil]
    ELSE IF r.cl.id = NoId
    THEN [reconnect |-> TRUE, decrypts |-> FALSE, setData |-> Nil]
    ELSE LET decryptedData == decryptData(encryptedData, r.cl.id, r.cl.secret)
         IN [reconnect |-> FALSE, decrypts |-> TRUE,
             setData |-> IF decryptedData = Malformed THEN Nil ELSE decryptedData]

\* the response of a read is altered on its way to the client
ResponseAltered(s) ==
    /\ reqs[s].kind = "get" /\ reqs[s].pc = "resp" /\ reqs[s].status = 200
    /\ reqs[s].rhmac = generateHMAC(reqs[s].encryptedData, reqs[s].secret)
    /\ \E w \in OnWire(reqs[s].encryptedData, reqs[s].rhmac) :
          /\ w # <<reqs[s].encryptedData, reqs[s].rhmac>>
          /\ reqs' = [reqs EXCEPT ![s] = [@ EXCEPT !.encryptedData = w[1],
                                                    !.rhmac = w[2]]]
    /\ UNCHANGED <<userInfo, userData, backup, issued, cdata, csecret, cid, cookie,
                   hist>>
    /\ lastDone' = "none"

\* retrieveData after its fetch, 2xx
ClientRetrieveOk(s) ==
    /\ reqs[s].kind = "get" /\ reqs[s].pc = "resp" /\ reqs[s].status = 200
    /\ LET got == Received(reqs[s], reqs[s].encryptedData, reqs[s].rhmac)
       IN /\ reqs' = IF got.reconnect
                     THEN getTokenAndSecret(Release(reqs, s), Retries)
                     ELSE Release(reqs, s)
          /\ cdata' = IF got.setData # Nil THEN got.setData ELSE cdata
          /\ lastDone' = IF got.decrypts THEN "decrypted"
                             ELSE IF got.reconnect THEN "unbound"
                             ELSE "rejected"
    /\ UNCHANGED <<userInfo, userData, backup, issued, csecret, cid, cookie, hist>>

\* retrieveData after its fetch, !response.ok
ClientRetrieveFailed(s) ==
    /\ reqs[s].kind = "get" /\ reqs[s].pc = "resp" /\ reqs[s].status # 200
    /\ LET r == reqs[s]
       IN IF r.status = 400 /\ r.message = "Secret missing, please connect again."
          THEN /\ reqs' = getTokenAndSecret(Release(reqs, s), Retries)
               /\ UNCHANGED <<cid, csecret>>
          ELSE IF r.status = 400 /\ r.message = BackupMissing(r).message
          THEN /\ reqs' = clearSecret(Release(reqs, s), cid)
               /\ cid' = NoId
               /\ csecret' = NoSecret
          ELSE /\ reqs' = Release(reqs, s)
               /\ UNCHANGED <<cid, csecret>>
    /\ UNCHANGED <<userInfo, userData, backup, issued, cdata, cookie,
                   hist>>
    /\ lastDone' = "none"

\* getTokenAndSecret's continuation without its setSecret(data.data.secret)
ClientConnectedNoSecret(s) ==
    /\ reqs[s].kind = "connect" /\ reqs[s].pc = "json"
    /\ cid' = reqs[s].rid
    /\ reqs' = Release(reqs, s)
    /\ UNCHANGED <<userInfo, userData, backup, issued, cdata, csecret, cookie, hist>>
    /\ lastDone' = IF reqs[s].discarded # NoId THEN "rebound" ELSE "none"

\* getTokenAndSecret's `await fetch` resolves: the response's head has
\* arrived and the browser has stored its Set-Cookie; the body is still
\* awaited (`await response.json()`)
ClientConnectFetched(s) ==
    /\ reqs[s].kind = "connect" /\ reqs[s].pc = "resp"
    /\ cookie' = reqs[s].rid
    /\ reqs' = [reqs EXCEPT ![s] = [@ EXCEPT !.pc = "json"]]
    /\ UNCHANGED <<userInfo, userData, backup, issued, cdata, csecret, cid, hist>>
    /\ lastDone' = "none"

\* getTokenAndSecret after `await response.json()`: setId(data.data.id),
\* setSecret(data.data.secret)
ClientConnected(s) ==
    /\ reqs[s].kind = "connect" /\ reqs[s].pc = "json"
    /\ cid' = reqs[s].rid
    /\ csecret' = reqs[s].rsecret
    /\ reqs' = Release(reqs, s)
    /\ UNCHANGED <<userInfo, userData, backup, issued, cdata, cookie, hist>>
    /\ lastDone' = IF reqs[s].discarded # NoId THEN "rebound" ELSE "none"

\* getTokenAndSecret's catch setting its timer whenever retries >= 0
FetchFailedOneMore(s) ==
    /\ reqs[s].pc \in {"s_connect", "s_info", "resp", "json"}
    /\ reqs' = IF reqs[s].kind = "connect" /\ reqs[s].retries >= 0
               THEN [reqs EXCEPT ![s] = [Idle EXCEPT !.kind = "connect", !.pc = "timer",
                                                   !.retries = reqs[s].retries - 1]]
               ELSE Release(reqs, s)
    /\ UNCHANGED <<userInfo, userData, backup, issued, cdata, csecret, cid, cookie,
                   hist>>
    /\ lastDone' = IF reqs[s].kind = "connect" /\ reqs[s].retries < 0
                   THEN "fatal" ELSE "none"

\* a fetch rejects (the request or the response is lost).  getTokenAndSecret
\* catches it and, with retries left, sets a timer; saveData and
\* retrieveData only report it.
FetchFailed(s) ==
    /\ reqs[s].pc \in {"s_connect", "s_info", "resp", "json"}
    /\ reqs' = IF reqs[s].kind = "connect" /\ reqs[s].retries > 0
               THEN [reqs EXCEPT ![s] = [Idle EXCEPT !.kind = "connect", !.pc = "timer",
                                                   !.retries = reqs[s].retries - 1]]
               ELSE Release(reqs, s)
    /\ UNCHANGED <<userInfo, userData, backup, issued, cdata, csecret, cid, cookie,
                   hist>>
    /\ lastDone' = IF reqs[s].kind = "connect" /\ reqs[s].retries <= 0
                   THEN "fatal" ELSE "none"

\* setTimeout(() => getTokenAndSecret(retries - 1), 1000) fires
RetryTimer(s) ==
    /\ reqs[s].pc = "timer"
    /\ reqs' = [reqs EXCEPT ![s] = [@ EXCEPT !.pc = "s_connect"]]
    /\ UNCHANGED <<userInfo, userData, backup, issued, cdata, csecret, cid, cookie,
                   hist>>
    /\ lastDone' = "none"

\* --------------------------------------------- the server and its sessions
\* The holder of a session, seen from the server: it connects, saves what
\* saveData would send for a typed plaintext, reads, and takes the answers.
Session(i) == i \in Ids /\ i[1] <= issued

HolderSave(i) ==
    /\ Session(i)
    /\ FreeSlots(reqs) # {}
    /\ \E data \in Plain :
          reqs' = Alloc(reqs, SaveFetch(data, i, IssuedSecret(i), i))
    /\ UNCHANGED <<userInfo, userData, backup, issued, cdata, csecret, cid, cookie,
                   hist>>
    /\ lastDone' = "none"

HolderRetrieve(i) ==
    /\ Session(i)
    /\ FreeSlots(reqs) # {}
    /\ reqs' = Alloc(reqs, RetrieveFetch(i, IssuedSecret(i), i))
    /\ UNCHANGED <<userInfo, userData, backup, issued, cdata, csecret, cid, cookie,
                   hist>>
    /\ lastDone' = "none"

\* an answer is on its way to the holder
Answered == \E s \in Slots : reqs[s].pc = "resp"

\* the answer has been taken
HolderDone(s) ==
    /\ reqs[s].pc = "resp"
    /\ reqs' = Release(reqs, s)
    /\ UNCHANGED <<userInfo, userData, backup, issued, cdata, csecret, cid, cookie,
                   hist>>
    /\ lastDone' = "none"

\* ------------------------------------------------------------ specification
\* the server, its store, the storage attacker and time
Next ==
    \/ \E s \in Slots : HolderDone(s)
    \/ ~Answered /\ \E i \in Ids : HolderSave(i)
    \/ ~Answered /\ \E i \in Ids : HolderRetrieve(i)
    \/ ~Answered /\ \E s \in Slots : ServerConnect(s)
    \/ ~Answered /\ \E s \in Slots : ServerGetInfo(s)
    \/ ~Answered /\ \E s \in Slots : ServerRefreshGet(s)
    \/ ~Answered /\ \E s \in Slots : ServerRefreshPost(s)
    \/ ~Answered /\ \E s \in Slots : ServerPut(s)
    \/ ~Answered /\ \E s \in Slots : ServerGetData(s)
    \/ ~Answered /\ \E s \in Slots : ServerGetBackup(s)
    \/ ~Answered /\ \E s \in Slots : ServerGetSecret(s)
    \/ ~Answered /\ \E s \in Slots : ServerHeal(s)
    \/ ~Answered /\ \E i \in Ids : Tamper(i)
    \/ ~Answered /\ Tick

Spec == Init /\ [][Next]_vars

\* the client and the server
ClientNext ==
    \/ \E s \in Slots : ServerConnect(s)
    \/ \E s \in Slots : ServerGetInfo(s)
    \/ \E s \in Slots : ServerRefreshGet(s)
    \/ \E s \in Slots : ServerRefreshPost(s)
    \/ \E s \in Slots : ServerPut(s)
    \/ \E s \in Slots : ServerGetData(s)
    \/ ClientType
    \/ ClientSave
    \/ \E s \in Slots : ClientSaveDone(s)
    \/ ClientRetrieve
    \/ \E s \in Slots : ResponseAltered(s)
    \/ \E s \in Slots : ClientRetrieveOk(s)
    \/ \E s \in Slots : ClientRetrieveFailed(s)
    \/ ClientClear
    \/ \E s \in Slots : ClientConnectFetched(s)
    \/ \E s \in Slots : ClientConnected(s)
    \/ \E s \in Slots : FetchFailed(s)
    \/ \E s \in Slots : RetryTimer(s)

ClientSpec == Init /\ [][ClientNext]_vars

\* the client and a server whose /connect answers: no fetch is lost, and a
\* /connect is only started while uuids are left for it
ConnectRoom ==
    issued + Cardinality({s \in Slots : reqs[s].pc = "s_connect"}) < MaxIds

Bound == csecret # NoSecret /\ cid # NoId

LiveNext ==
    \/ \E s \in Slots : ServerConnect(s)
    \/ \E s \in Slots : ServerGetInfo(s)
    \/ \E s \in Slots : ServerRefreshGet(s)
    \/ \E s \in Slots : ServerRefreshPost(s)
    \/ \E s \in Slots : ServerPut(s)
    \/ \E s \in Slots : ServerGetData(s)
    \/ ClientType
    \/ (Bound \/ ConnectRoom) /\ ClientSave
    \/ \E s \in Slots : ClientSaveDone(s)
    \/ ClientRetrieve
    \/ \E s \in Slots : (reqs[s].cl.secret # NoSecret \/ ConnectRoom) /\ ClientRetrieveOk(s)
    \/ \E s \in Slots : ClientRetrieveFailed(s)
    \/ ConnectRoom /\ ClientClear
    \/ \E s \in Slots : ClientConnectFetched(s)
    \/ \E s \in Slots : ClientConnected(s)

LiveSpec ==
    /\ Init
    /\ [][LiveNext]_vars
    /\ WF_vars(\E s \in Slots : ServerConnect(s))
    /\ WF_vars(\E s \in Slots : ClientConnectFetched(s))
    /\ WF_vars(\E s \in Slots : ClientConnected(s))

\* ------------------------------------------------------------------ claims
\* what the session's holder reads out of a 200: decryptData of App.tsx with
\* the identity and secret of the session
Returned(r) == decryptData(r.encryptedData, r.id, IssuedSecret(r.id))

BackupMissingMessage == BackupMissing(Idle).message

\* C1: after a save of P is acknowledged, with no tampering, expiry or other
\* save in between, every read of that identity that finds its secret live
\* succeeds, recomputes the at-rest tag the save stored (no self-heal) and
\* returns a ciphertext that decrypts to P.
SaveThenRead ==
    \A s \in Slots :
        LET r == reqs[s]
        IN (/\ r.kind = "get" /\ r.pc = "resp" /\ r.id \in Ids
            /\ r.secret # NoSecret
            /\ ~r.overtaken
            /\ hist[r.id].lastSave # Nil /\ hist[r.id].quiet)
           => /\ r.status = 200
              /\ ~r.promoted
              /\ r.calculated = r.storedHmac
              /\ r.storedHmac = TagOf(hist[r.id].lastSave, r.id)
              /\ Returned(r) = hist[r.id].lastSave

\* C2: a read that finds the primary record's tag mismatching while the
\* backup record and the session secret are present succeeds, returns the
\* encryption of the backup's plaintext and leaves the primary record holding
\* the backup's plaintext under a tag that verifies.
TamperedReadHeals ==
    \A s \in Slots :
        LET r == reqs[s]
            i == r.id
        IN (/\ r.kind = "get" /\ r.pc = "resp" /\ r.promoted
            /\ backup[i].data # Nil /\ userInfo[i].secret # NoSecret)
           => /\ r.status = 200
              /\ r.encryptedData = encryptData(backup[i].data, i, userInfo[i].secret)
              /\ userData[i].data = backup[i].data
              /\ userData[i].hmac =
                    generateServerHMAC(encryptData(userData[i].data, i, userInfo[i].secret))

\* a read has answered 200 after promoting the backup over a tampered primary
TamperedReadHealsWitness ==
    \E s \in Slots :
        /\ reqs[s].kind = "get" /\ reqs[s].pc = "resp" /\ reqs[s].promoted
        /\ reqs[s].status = 200
        /\ backup[reqs[s].id].data \in Plain
        /\ userInfo[reqs[s].id].secret # NoSecret

\* C3: a read that finds the primary record's tag mismatching and no backup
\* record fails with "Data tampered and backup missing", its response
\* carries no ciphertext and no tag, and the records are left as they were.
NoBackupNoHeal ==
    [][\A s \in Slots :
          (/\ reqs[s].kind = "get" /\ reqs[s].pc = "s_backup"
           /\ reqs'[s].pc # "s_backup"
           /\ backup[reqs[s].id].data = Nil)
          => /\ reqs'[s].pc = "resp"
             /\ reqs'[s].status = 400
             /\ reqs'[s].message = BackupMissingMessage
             /\ reqs'[s].encryptedData = NoCipher
             /\ reqs'[s].rhmac = NoTag
             /\ userData' = userData
             /\ backup' = backup]_vars

\* a read has failed on a tampered primary record whose backup is gone
NoBackupNoHealWitness ==
    \E s \in Slots :
        /\ reqs[s].kind = "get" /\ reqs[s].pc = "resp" /\ reqs[s].promoted
        /\ reqs[s].message = BackupMissingMessage
        /\ backup[reqs[s].id].data = Nil
        /\ userData[reqs[s].id].data # Nil
        /\ userInfo[reqs[s].id].secret # NoSecret

\* C4: whatever {data, hmac} is written over the primary record, old ones
\* included, every successful read returns the plaintext of the most recent
\* acknowledged save.
TamperDetected ==
    \A s \in Slots :
        LET r == reqs[s]
        IN (/\ r.kind = "get" /\ r.pc = "resp" /\ r.status = 200
            /\ ~r.overtaken)
           => Returned(r) = hist[r.id].lastSave

\* C5: a read that follows a self-heal, with no save, tampering or expiry in
\* between, and finds its secret live answers 200 without calling the
\* promotion, writes nothing and returns the plaintext the self-healed read
\* returned.
HealedStaysHealed ==
    \A s \in Slots :
        LET r == reqs[s]
        IN (/\ r.kind = "get" /\ r.pc = "resp" /\ r.healed # Nil
            /\ r.secret # NoSecret)
           => /\ r.status = 200
              /\ ~r.promoted
              /\ ~r.wrote
              /\ Returned(r) = r.healed

\* C6: when retrieveData's recomputed transit tag differs from the received
\* one, decryptData is not called and data, secret and id stay as they are.
RejectedUnread ==
    [][\A s \in Slots :
          (/\ reqs[s].kind = "get" /\ reqs[s].pc = "resp" /\ reqs[s].status = 200
           /\ reqs[s].cl.secret # NoSecret
           /\ generateHMAC(reqs[s].encryptedData, reqs[s].cl.secret) # reqs[s].rhmac
           /\ reqs'[s] # reqs[s]
           /\ lastDone' # "none")
          => /\ lastDone' = "rejected"
             /\ cdata' = cdata /\ csecret' = csecret /\ cid' = cid]_vars

\* retrieveData has just refused a response whose tag did not match
RejectedUnreadWitness == lastDone = "rejected"

\* C7: whenever the program wrote the primary record last (a save or a
\* self-heal) and both records of an identity are present, they hold the
\* same plaintext.
PrimaryMatchesBackup ==
    \A i \in Ids :
        (/\ hist[i].by \in {"save", "heal"}
         /\ userData[i].data # Nil /\ backup[i].data # Nil)
        => userData[i].data = backup[i].data

\* a second save has replaced the records of a first one
PrimaryMatchesBackupWitness ==
    \E i \in Ids :
        /\ hist[i].by = "save" /\ hist[i].held = Plain
        /\ userData[i].data # Nil /\ backup[i].data # Nil

\* C8: app.post('/') calls decryptData on the received ciphertext only after
\* it has recomputed the transit tag and found it equal to the received one.
TagBeforeDecrypt ==
    \A s \in Slots :
        (reqs[s].kind = "post" /\ reqs[s].decrypted # Nil)
        => reqs[s].calculated = reqs[s].hmac

\* C9: a promotion that follows another one with no write in between leaves
\* the primary payload, the primary tag and the backup payload the first one
\* left, and returns the plaintext the first one returned.
PromotionIdempotent ==
    [][\A s \in Slots :
          (/\ reqs[s].kind = "get" /\ reqs[s].pc = "s_heal"
           /\ reqs'[s].pc = "resp"
           /\ reqs[s].again # NoPromotion)
          => LET i == reqs[s].id
                 first == reqs[s].again
             IN /\ userData'[i].data = first.data
                /\ userData'[i].hmac = first.hmac
                /\ backup'[i].data = first.backup
                /\ Returned(reqs'[s]) = first.data]_vars

\* a second promotion has answered after a first one, nothing written between
PromotionIdempotentWitness ==
    \E s \in Slots :
        /\ reqs[s].kind = "get" /\ reqs[s].pc = "resp" /\ reqs[s].status = 200
        /\ reqs[s].again # NoPromotion

\* C10: getUserInfo of a live identity returns the secret /connect stored and
\* sets the key's lifetime to the full session TTL; getUserInfo of an absent
\* or expired identity returns null (the handler answers 400, no exception)
\* and leaves userInfo as it was.
SlidingExpiry ==
    [][\A s \in Slots :
          LET r == reqs[s]
              i == r.id
          IN /\ (r.pc = "s_info" /\ reqs'[s].pc # "s_info")
                => IF userInfo[i].secret = NoSecret
                   THEN /\ reqs'[s].pc = "resp"
                        /\ reqs'[s].status = 400
                        /\ reqs'[s].message = "Secret missing, please connect again."
                        /\ userInfo' = userInfo
                   ELSE /\ reqs'[s].pc = "s_refresh"
                        /\ reqs'[s].secret = IssuedSecret(i)
                        /\ userInfo' = userInfo
             /\ (r.pc = "s_refresh" /\ reqs'[s].pc # "s_refresh")
                => userInfo' = [userInfo EXCEPT ![i] =
                                  [secret |-> IssuedSecret(i), ttl |-> SessionTTL]]]_vars

\* a lookup has refreshed the secret of a session old enough for its saved
\* data to have expired
SlidingExpiryWitness ==
    \E s \in Slots :
        /\ reqs[s].kind = "get" /\ reqs[s].pc = "s_data"
        /\ userInfo[reqs[s].id].ttl = SessionTTL
        /\ hist[reqs[s].id].lastSave # Nil
        /\ userData[reqs[s].id].data = Nil

\* C11: once a clearSecret has completed, the identity it dropped has no
\* secret in the Session Store.
ClearDestroysSecret ==
    [][\A s \in Slots :
          (/\ reqs[s].kind = "connect" /\ reqs[s].pc = "json"
           /\ reqs[s].discarded # NoId
           /\ reqs'[s] # reqs[s])
          => userInfo'[reqs[s].discarded].secret = NoSecret]_vars

\* C12: clearSecret leaves the client without secret and identity, and once
\* /connect answers the client holds an identity and a secret again, both
\* different from the ones it dropped.
ClearRebinds ==
    /\ [][\A s \in Slots :
            (/\ reqs'[s].kind = "connect" /\ reqs'[s].pc = "s_connect"
             /\ reqs'[s].discarded # NoId
             /\ reqs'[s] # reqs[s])
            => cid' = NoId /\ csecret' = NoSecret]_vars
    /\ \A i \in Ids :
          (\E s \in Slots : reqs[s].kind = "connect" /\ reqs[s].discarded = i)
          ~> (/\ cid # NoId /\ cid # i
              /\ csecret # NoSecret /\ csecret # IssuedSecret(i))

\* the /connect of a clearSecret has just given the client its new session
ClearRebindsWitness ==
    /\ lastDone = "rebound"
    /\ cid = Uuid(2) /\ csecret = IssuedSecret(Uuid(2))

\* C13: a saveData called while the client has no secret or no identity
\* starts one getTokenAndSecret, throws, and sends no POST: a POST only
\* leaves a client that holds both.
UnboundSaveReconnects ==
    [][/\ lastDone' = "notready" =>
            /\ csecret = NoSecret \/ cid = NoId
            /\ \E s \in Slots :
                  /\ reqs[s] = Idle
                  /\ reqs'[s].kind = "connect" /\ reqs'[s].pc = "s_connect"
                  /\ reqs'[s].retries = Retries
                  /\ \A t \in Slots \ {s} : reqs'[t] = reqs[t]
       /\ \A s \in Slots :
             (reqs[s].kind # "post" /\ reqs'[s].kind = "post")
             => csecret # NoSecret /\ cid # NoId]_vars

\* saveData has just thrown for want of a secret, its /connect is on its way
UnboundSaveReconnectsWitness ==
    /\ lastDone = "notready"
    /\ cdata # ""
    /\ \E s \in Slots : reqs[s].kind = "connect" /\ reqs[s].pc = "s_connect"
    /\ \A s \in Slots : reqs[s].kind # "post"

\* C14: when saveData takes a 400 "Data integrity compromised." answer, it
\* starts a /connect (after which the client's id and secret are replaced).
SaveIntegrityReconnects ==
    [][\A s \in Slots :
          (/\ reqs[s].kind = "post" /\ reqs[s].pc = "resp"
           /\ reqs[s].status = 400
           /\ reqs[s].message = "Data integrity compromised."
           /\ reqs'[s] # reqs[s])
          => \E t \in Slots :
                /\ reqs'[t] # reqs[t]
                /\ reqs'[t].kind = "connect" /\ reqs'[t].pc = "s_connect"]_vars

\* C15 as stated: a getTokenAndSecret whose fetches all fail calls /connect
\* at most 3 times (the call with `retries` left is call number
\* Retries - retries + 1).
ConnectAtMostThreeCalls ==
    \A s \in Slots :
       (reqs[s].kind = "connect" /\ reqs[s].pc = "s_connect")
       => Retries - reqs[s].retries + 1 <= 3

\* C15: a getTokenAndSecret whose fetches all fail calls /connect at most
\* Retries + 1 = 4 times, the first call and three retries; when the last
\* one fails it reports the error and sets no timer.
ConnectAtMostFourCalls ==
    /\ [](\A s \in Slots :
            reqs[s].kind = "connect"
            => /\ reqs[s].retries \in 0 .. Retries
               /\ Retries - reqs[s].retries + 1 <= 4)
    /\ [][\A s \in Slots :
            (/\ reqs[s].kind = "connect" /\ reqs[s].retries = 0
             /\ reqs'[s] # reqs[s])
            => /\ reqs'[s].pc # "timer"
               /\ reqs'[s].pc = "idle" /\ reqs[s].pc = "s_connect"
                  => lastDone' = "fatal"]_vars

\* the fourth call has failed: the error is reported and nothing is pending
ConnectAtMostFourCallsWitness ==
    /\ lastDone = "fatal"
    /\ \A s \in Slots : reqs[s] = Idle
    /\ cid = NoId /\ csecret = NoSecret

\* C16: app.get('/') answers 400 "Secret missing" when the identity has no
\* secret, whatever userData and backup hold, and 400 "Data missing" when
\* the secret was found and userData is absent; neither step writes
\* userData or backup.
ReadErrorOrder ==
    [][\A s \in Slots :
          LET r == reqs[s]
          IN /\ (/\ r.kind = "get" /\ r.pc = "s_info"
                 /\ userInfo[r.id].secret = NoSecret
                 /\ reqs'[s].pc # r.pc)
                => /\ reqs'[s].pc = "resp" /\ reqs'[s].status = 400
                   /\ reqs'[s].message = "Secret missing, please connect again."
                   /\ ~reqs'[s].wrote
                   /\ userData' = userData /\ backup' = backup
             /\ (/\ r.kind = "get" /\ r.pc = "s_data"
                 /\ userData[r.id].data = Nil
                 /\ reqs'[s].pc # r.pc)
                => /\ reqs'[s].pc = "resp" /\ reqs'[s].status = 400
                   /\ reqs'[s].message = "Data missing, please save data again."
                   /\ ~reqs'[s].wrote
                   /\ userData' = userData /\ backup' = backup]_vars

\* a read was refused for its missing secret while both records were there
ReadErrorOrderWitness ==
    \E s \in Slots :
       /\ reqs[s].kind = "get" /\ reqs[s].pc = "resp" /\ reqs[s].status = 400
       /\ reqs[s].message = "Secret missing, please connect again."
       /\ userData[reqs[s].id].data # Nil
       /\ backup[reqs[s].id].data # Nil

StoredTagValid ==
    \A i \in Ids :
       (/\ userData[i].data # Nil
        /\ hist[i].by # "tamper"
        /\ userInfo[i].secret # NoSecret)
       => userData[i].hmac =
             generateServerHMAC(encryptData(userData[i].data, i, userInfo[i].secret))

\* the record of a live session was last written by a promotion, and its
\* tag verifies
StoredTagValidWitness ==
    \E i \in Ids :
       /\ hist[i].by = "heal"
       /\ userData[i].data \in Plain
       /\ userInfo[i].secret # NoSecret
       /\ userData[i].hmac = TagOf(userData[i].data, i)

\* C19: app.post('/') answers a request whose hmac differs from
\* generateHMAC(encryptedData, secret) with 400 "Data integrity
\* compromised." and writes neither userData nor backup.
MismatchRejected ==
    [][\A s \in Slots :
          (/\ reqs[s].kind = "post" /\ reqs[s].pc = "s_refresh"
           /\ reqs'[s].pc # reqs[s].pc
           /\ generateHMAC(reqs'[s].data, reqs[s].secret) # reqs'[s].hmac)
          => /\ reqs'[s].pc = "resp" /\ reqs'[s].status = 400
             /\ reqs'[s].message = "Data integrity compromised."
             /\ userData' = userData /\ backup' = backup]_vars

\* C20: when a read's promotion ends after a save of the same identity was
\* acknowledged while the read ran, userData and backup hold that save's
\* plaintext.
HealKeepsSave ==
    [][\A s \in Slots :
          (/\ reqs[s].kind = "get" /\ reqs[s].pc = "s_heal"
           /\ reqs'[s].pc = "resp"
           /\ reqs[s].overtaken)
          => LET i == reqs[s].id
             IN /\ userData'[i].data = hist[i].lastSave
                /\ backup'[i].data = hist[i].lastSave]_vars

\* C21: whenever the client holds an id and a secret, the cookie it presents
\* names that id, and the secret is the one issued with it.
CredentialMatchesIdentity ==
    (cid # NoId /\ csecret # NoSecret)
    => cookie = cid /\ csecret = IssuedSecret(cid)

\* C22: a read whose getBackupUserData found a backup record, the record
\* being there still, does not answer "Data tampered and backup missing",
\* whatever has become of the secret since getUserInfo read it.
BackupMissingOnlyIfAbsent ==
    [][\A s \in Slots :
          (/\ reqs[s].kind = "get" /\ reqs[s].pc = "s_secret"
           /\ reqs[s].backupData # Nil
           /\ backup[reqs[s].id].data # Nil
           /\ reqs'[s].pc # reqs[s].pc)
          => ~(/\ reqs'[s].pc = "resp" /\ reqs'[s].status = 400
               /\ reqs'[s].message = BackupMissingMessage)]_vars

\* C23: no step of app.get('/') up to its tag comparison writes userData or
\* backup or changes their lifetimes; of userInfo only getUserInfo's
\* putUserInfo writes, the secret it read with a fresh lifetime; a read
\* that answers 200 without the promotion has written no record.
CleanReadWritesNothing ==
    /\ [][\A s \in Slots :
            LET r == reqs[s]
            IN (/\ r.kind = "get" /\ r.pc \in {"s_info", "s_refresh", "s_data"}
                /\ reqs'[s].pc # r.pc)
               => /\ userData' = userData
                  /\ backup' = backup
                  /\ userInfo' = IF r.pc = "s_refresh"
                                 THEN [userInfo EXCEPT ![r.id] =
                                         [secret |-> r.secret, ttl |-> SessionTTL]]
                                 ELSE userInfo]_vars
    /\ [](\A s \in Slots :
            (/\ reqs[s].kind = "get" /\ reqs[s].pc = "resp"
             /\ reqs[s].status = 200 /\ ~reqs[s].promoted)
            => ~reqs[s].wrote)

\* a read has answered 200 on a matching tag; the records it read are there,
\* the secret's lifetime is fresh
CleanReadWritesNothingWitness ==
    \E s \in Slots :
       LET r == reqs[s]
       IN /\ r.kind = "get" /\ r.pc = "resp" /\ r.status = 200
          /\ ~r.promoted /\ ~r.wrote
          /\ userData[r.id].data \in Plain
          /\ userData[r.id].hmac = r.storedHmac
          /\ backup[r.id].data = userData[r.id].data
          /\ userInfo[r.id].ttl = SessionTTL

====
